---- MODULE Spec2Model ----
(***************************************************************************)
(* Service-request lifecycle and time-ledger settlement of the_hive.       *)
(* Model of ServiceRequestViewSet (the_hive/views.py), register, and the   *)
(* TimeAccount / TimeTransaction / ServiceRequest / Service models.        *)
(*                                                                         *)
(* Hours are Decimal values with two decimal places; they are represented  *)
(* as integers counting hundredths of an hour (3.00 h = 300).              *)
(* Every action is one HTTP request handled to completion; the database    *)
(* runs in autocommit mode, so every save() of a handler is kept even when *)
(* the handler later returns an error response.                            *)
(***************************************************************************)
EXTENDS Integers, Sequences, FiniteSets, TLC

\* ---------------------------------------------------------------- bounds
\* Largest number of settlements (debit/credit pairs) in one behaviour.
MaxSettlements == 2

\* ------------------------------------------------------------- constants
\* Hundredths of an hour per hour (DecimalField decimal_places=2).
Unit == 100
\* Starting grant of register: defaults={"balance": 3.00}.
StartingGrant == 300
\* Default of TimeAccount.balance / total_earned / total_spent.
ZeroHours == 0

\* ------------------------------------------------------------ the inputs
Users == {"u1", "u2", "u3"}
\* The users that take part in Spec: the service owner and one other user.
Members == {"u1", "u2"}
Services == {"s1"}
\* Every service of the model is owned by u1 (Service.owner).
ServiceOwner == [s \in Services |-> "u1"]
ServiceTypes == {"offer", "need"}
NoHours == -1000
\* Service.estimated_hours: PositiveIntegerField(null=True), whole hours.
EstimatedHoursChoices == {NoHours, 3}
\* request.data["actual_hours"] values sent to update_hours (hundredths).
ActualHoursInputs == {-1, 0, 100, 301}
\* request.data["status"] values sent to set_status.
StatusInputs == {"pending", "accepted", "rejected", "cancelled", "in_progress", "completed"}
NoAccount == [exists |-> FALSE, balance |-> 0, total_earned |-> 0, total_spent |-> 0]
GrantAccount == [exists |-> TRUE, balance |-> StartingGrant, total_earned |-> 0, total_spent |-> 0]
NoTime == "null"
Stamped == "now"
NoRequest == 0

VARIABLES
    users,          \* User rows that exist
    service_type,   \* Service.service_type, per service
    estimated_hours,\* Service.estimated_hours, per service (whole hours or NoHours)
    service_status, \* Service.status, per service
    requests,       \* ServiceRequest rows, in order of creation (index = pk)
    accounts,       \* TimeAccount row of each user, or NoAccount
    opening,        \* balance each TimeAccount was created with
    transactions,   \* TimeTransaction rows, in order of creation
    conversations,  \* Conversation rows, in order of creation (index = pk)
    last,           \* the last request handled and its response
    handlers        \* the calls in progress that are handled statement by statement

vars == <<users, service_type, estimated_hours, service_status, requests,
          accounts, opening, transactions, conversations, last, handlers>>

ledger == <<accounts, opening, transactions>>
catalog == <<service_type, estimated_hours>>

\* ------------------------------------------------- the calls in progress
\* The worker processes that handle calls side by side.
HandlerIds == {"h1", "h2"}
NoRow == [requester |-> "", service |-> "", status |-> "",
          owner_approved |-> FALSE, requester_approved |-> FALSE,
          actual_hours |-> NoHours,
          actual_hours_owner_approved |-> FALSE,
          actual_hours_requester_approved |-> FALSE,
          responded_at |-> NoTime, conversation |-> 0]
\* A worker that handles no call: the objects it holds in memory are the
\* request row sr, the two account rows, and the hours to settle.
IdleHandler ==
    [pc |-> "idle", op |-> "none", user |-> "", request |-> NoRequest,
     sr |-> NoRow, payer_account |-> NoAccount, receiver_account |-> NoAccount,
     service_hours |-> 0, code |-> 0, detail |-> ""]

\* ------------------------------------------------------------- responses
Response(op, u, r, code, detail) ==
    [op |-> op, user |-> u, request |-> r, code |-> code, detail |-> detail]

\* --------------------------------------------------------------- helpers
RequestIds == 1..Len(requests)

\* Variant of the party check: every user counts as a party.
IsParty_any(u, sr) == TRUE

\* user.id == service_owner_id or user.id == sr.requester.id
IsParty(u, sr) == u = sr.requester \/ u = ServiceOwner[sr.service]

\* ServiceRequestViewSet.get_queryset: only the requester and the service
\* owner can see (and so address) a request; get_object raises Http404
\* for everybody else.
Visible(u, r) == r \in RequestIds /\ IsParty(u, requests[r])

TerminalStatuses == {"completed", "rejected", "cancelled"}

\* Python truthiness of a nullable Decimal: None and Decimal("0") are falsy.
Truthy(h) == h # NoHours /\ h # 0

\* Variant of the fallback: a service without an estimate counts as one hour.
EstimatedDecimal_unit(s) ==
    IF estimated_hours[s] = NoHours \/ estimated_hours[s] = 0
    THEN Unit ELSE estimated_hours[s] * Unit

\* Decimal(str(sr.service.estimated_hours or 0)), in hundredths.
EstimatedDecimal(s) ==
    IF estimated_hours[s] = NoHours \/ estimated_hours[s] = 0
    THEN 0 ELSE estimated_hours[s] * Unit

\* Variant of the selection: the proposed hours count without the approvals.
ServiceHours_unapproved(sr) ==
    IF Truthy(sr.actual_hours)
    THEN sr.actual_hours
    ELSE EstimatedDecimal(sr.service)

\* complete: the hours that are settled.
ServiceHours(sr) ==
    IF Truthy(sr.actual_hours) /\ sr.actual_hours_owner_approved
       /\ sr.actual_hours_requester_approved
    THEN sr.actual_hours
    ELSE EstimatedDecimal(sr.service)

\* Variant of get_or_create: the defaults are not applied to the new row.
GetOrCreate_nodefaults(accts, u, balance) ==
    IF accts[u].exists THEN accts
    ELSE [accts EXCEPT ![u] = [exists |-> TRUE, balance |-> ZeroHours,
                               total_earned |-> ZeroHours, total_spent |-> ZeroHours]]

\* Variant of get_or_create: every new row receives the starting grant.
GetOrCreate_grant(accts, u, balance) ==
    IF accts[u].exists THEN accts
    ELSE [accts EXCEPT ![u] = [exists |-> TRUE, balance |-> StartingGrant,
                               total_earned |-> ZeroHours, total_spent |-> ZeroHours]]

\* TimeAccount.objects.get_or_create(user=u): the resulting table.
GetOrCreate(accts, u, balance) ==
    IF accts[u].exists THEN accts
    ELSE [accts EXCEPT ![u] = [exists |-> TRUE, balance |-> balance,
                               total_earned |-> ZeroHours, total_spent |-> ZeroHours]]

\* Balance recorded for get_or_create's created account.
OpeningAfter(accts, open, u, balance) ==
    IF accts[u].exists THEN open ELSE [open EXCEPT ![u] = balance]

\* Variant of the payer lookup: the requester pays whatever the service type.
Payer_requester(sr) == sr.requester

\* Variant of the receiver lookup: the hours are credited to a user who is
\* no party of the request.
Receiver_other(sr) ==
    CHOOSE u \in Users : u # sr.requester /\ u # ServiceOwner[sr.service]

\* complete: payer and receiver by service type.
Payer(sr) == IF service_type[sr.service] = "need" THEN ServiceOwner[sr.service] ELSE sr.requester
Receiver(sr) == IF service_type[sr.service] = "need" THEN sr.requester ELSE ServiceOwner[sr.service]

\* Variants of the balance check: an off-by-one that lets the payer overdraw
\* by one unit, and a strict comparison that refuses an exact balance.
SufficientBalance_overdraw(balance, hours) == balance + 1 >= hours
SufficientBalance_strict(balance, hours) == balance > hours

\* complete: the balance check.
SufficientBalance(balance, hours) == balance >= hours

\* TimeTransaction.signed_amount
signed_amount(t) ==
    IF t.transaction_type \in {"credit", "bonus"} THEN t.amount ELSE 0 - t.amount

\* service.requests.exclude(status__in=[...]).exists()
ActiveRequests(reqs, s) ==
    \E i \in 1..Len(reqs) : reqs[i].service = s /\ reqs[i].status \notin TerminalStatuses

\* Variant of the lookup: a rejected or cancelled request does not count.
ExistingRequest_active(u, s) ==
    \E i \in RequestIds : /\ requests[i].requester = u /\ requests[i].service = s
                           /\ requests[i].status \notin {"rejected", "cancelled"}

\* perform_create: ServiceRequest.objects.filter(requester=user,
\* service=service).first() finds a row.
ExistingRequest(u, s) ==
    \E i \in RequestIds : requests[i].requester = u /\ requests[i].service = s

\* Variant of the check: nobody is taken for the owner.
OwnService_never(u, s) == FALSE

\* perform_create: service.owner == user
OwnService(u, s) == ServiceOwner[s] = u

\* Variants of the role checks: the owner may cancel too, and anybody who
\* sees the request may decide.
MayCancel_party(u, sr) == IsParty(u, sr)
MayDecide_any(u, sr) == TRUE

\* set_status: sr.requester == user, the condition to cancel.
MayCancel(u, sr) == sr.requester = u
\* set_status: service_owner_id == user.id, the condition to accept or reject.
MayDecide(u, sr) == ServiceOwner[sr.service] = u

\* Variant of the start rule: one approval is enough.
StartedStatus_either(o, q, status) == IF o \/ q THEN "in_progress" ELSE status

\* approve_start: the status saved, given the two flags after the approval.
StartedStatus(o, q, status) == IF o /\ q THEN "in_progress" ELSE status

\* Variant of the precondition: hours may be proposed on an accepted request.
HoursUpdatable_accepted(status) == status \in {"accepted", "in_progress", "completed"}

\* update_hours: sr.status in ["in_progress", "completed"]
HoursUpdatable(status) == status \in {"in_progress", "completed"}

\* Variant of the proposal: the approvals given before are kept.
HoursProposal_keep(sr, hours) == [sr EXCEPT !.actual_hours = hours]

\* update_hours: the row saved for a proposal of hours.
HoursProposal(sr, hours) ==
    [sr EXCEPT !.actual_hours = hours,
               !.actual_hours_owner_approved = FALSE,
               !.actual_hours_requester_approved = FALSE]

\* Variant of the precondition: a completed request may be completed again.
Completable_again(status) == status \in {"in_progress", "completed"}

\* complete: sr.status == "in_progress"
Completable(status) == status = "in_progress"

\* ------------------------------------------------------------------ Init
Init ==
    /\ users \in {U \in SUBSET Members : \A s \in Services : ServiceOwner[s] \in U}
    /\ service_type \in [Services -> ServiceTypes]
    /\ estimated_hours \in [Services -> EstimatedHoursChoices]
    /\ service_status = [s \in Services |-> "active"]
    /\ requests = << >>
    /\ accounts \in [Users -> {NoAccount, GrantAccount}]
    /\ \A u \in Users \ users : accounts[u] = NoAccount
    /\ opening = [u \in Users |-> accounts[u].balance]
    /\ transactions = << >>
    /\ conversations = << >>
    /\ last = [op |-> "none", user |-> "u1", request |-> NoRequest, code |-> 0,
               detail |-> ""]
    /\ handlers = [h \in HandlerIds |-> IdleHandler]

\* --------------------------------------------------------------- actions
\* register: a new user is created together with a TimeAccount holding the
\* starting grant.
register(u) ==
    /\ u \notin users
    /\ users' = users \cup {u}
    /\ accounts' = GetOrCreate(accounts, u, StartingGrant)
    /\ opening' = OpeningAfter(accounts, opening, u, StartingGrant)
    /\ last' = Response("register", u, NoRequest, 201, "User created successfully")
    /\ UNCHANGED <<handlers, catalog, service_status, requests, transactions, conversations>>

\* ServiceRequestViewSet.perform_create (POST /service-requests/)
perform_create(u, s) ==
    /\ u \in users
    /\ IF ExistingRequest(u, s)
       THEN /\ last' = Response("create", u, NoRequest, 400, "You already have a request for this service.")
            /\ UNCHANGED <<requests, conversations>>
       ELSE IF OwnService(u, s)
       THEN /\ last' = Response("create", u, NoRequest, 400, "You cannot request your own service.")
            /\ UNCHANGED <<requests, conversations>>
       ELSE /\ requests' = Append(requests,
                  [requester |-> u, service |-> s, status |-> "pending",
                   owner_approved |-> FALSE, requester_approved |-> FALSE,
                   actual_hours |-> NoHours,
                   actual_hours_owner_approved |-> FALSE,
                   actual_hours_requester_approved |-> FALSE,
                   responded_at |-> NoTime,
                   conversation |-> Len(conversations) + 1])
            /\ conversations' = Append(conversations,
                  [related_service |-> s, participants |-> {u, ServiceOwner[s]}])
            /\ last' = Response("create", u, Len(requests) + 1, 201, "")
    /\ UNCHANGED <<handlers, users, catalog, service_status, ledger>>

\* ServiceRequestViewSet.set_status (POST /service-requests/{pk}/set_status/)
set_status(u, r, new_status) ==
    /\ u \in users
    /\ r \in RequestIds
    /\ IF ~Visible(u, r)
       THEN /\ last' = Response("set_status", u, r, 404, "Not found.")
            /\ UNCHANGED requests
       ELSE IF new_status \notin {"pending", "accepted", "rejected", "cancelled"}
       THEN /\ last' = Response("set_status", u, r, 400, "Invalid status.")
            /\ UNCHANGED requests
       ELSE IF new_status = "cancelled" /\ ~MayCancel(u, requests[r])
       THEN /\ last' = Response("set_status", u, r, 403, "Only the requester can cancel this request.")
            /\ UNCHANGED requests
       ELSE IF new_status \in {"accepted", "rejected"} /\ ~MayDecide(u, requests[r])
       THEN /\ last' = Response("set_status", u, r, 403, "Only the service owner can perform this action.")
            /\ UNCHANGED requests
       ELSE /\ requests' = [requests EXCEPT
                  ![r].status = new_status,
                  ![r].responded_at =
                      IF new_status \in {"accepted", "rejected"}
                         /\ ServiceOwner[requests[r].service] = u
                      THEN Stamped ELSE @]
            /\ last' = Response("set_status", u, r, 200, "")
    /\ UNCHANGED <<handlers, users, catalog, service_status, ledger, conversations>>

\* ServiceRequestViewSet.approve_start
approve_start(u, r) ==
    /\ u \in users
    /\ r \in RequestIds
    /\ IF ~Visible(u, r)
       THEN /\ last' = Response("approve_start", u, r, 404, "Not found.")
            /\ UNCHANGED requests
       ELSE IF ~IsParty(u, requests[r])
       THEN /\ last' = Response("approve_start", u, r, 403, "You are not part of this service request.")
            /\ UNCHANGED requests
       ELSE IF requests[r].status # "accepted"
       THEN /\ last' = Response("approve_start", u, r, 400, "Service request must be accepted first.")
            /\ UNCHANGED requests
       ELSE LET sr == requests[r]
                o == IF u = ServiceOwner[sr.service] THEN TRUE ELSE sr.owner_approved
                q == IF u # ServiceOwner[sr.service] /\ u = sr.requester
                     THEN TRUE ELSE sr.requester_approved
            IN /\ requests' = [requests EXCEPT
                     ![r].owner_approved = o,
                     ![r].requester_approved = q,
                     ![r].status = StartedStatus(o, q, @)]
               /\ last' = Response("approve_start", u, r, 200, "")
    /\ UNCHANGED <<handlers, users, catalog, service_status, ledger, conversations>>

\* ServiceRequestViewSet.update_hours
update_hours(u, r, hours) ==
    /\ u \in users
    /\ r \in RequestIds
    /\ IF ~Visible(u, r)
       THEN /\ last' = Response("update_hours", u, r, 404, "Not found.")
            /\ UNCHANGED requests
       ELSE IF ~IsParty(u, requests[r])
       THEN /\ last' = Response("update_hours", u, r, 403, "You are not part of this service request.")
            /\ UNCHANGED requests
       ELSE IF ~HoursUpdatable(requests[r].status)
       THEN /\ last' = Response("update_hours", u, r, 400, "Service must be in progress or completed to update hours.")
            /\ UNCHANGED requests
       ELSE IF hours = NoHours
       THEN /\ last' = Response("update_hours", u, r, 400, "actual_hours is required.")
            /\ UNCHANGED requests
       ELSE IF hours < 0
       THEN /\ last' = Response("update_hours", u, r, 400, "Hours cannot be negative.")
            /\ UNCHANGED requests
       ELSE /\ requests' = [requests EXCEPT ![r] = HoursProposal(@, hours)]
            /\ last' = Response("update_hours", u, r, 200, "")
    /\ UNCHANGED <<handlers, users, catalog, service_status, ledger, conversations>>

\* ServiceRequestViewSet.approve_hours
approve_hours(u, r) ==
    /\ u \in users
    /\ r \in RequestIds
    /\ IF ~Visible(u, r)
       THEN /\ last' = Response("approve_hours", u, r, 404, "Not found.")
            /\ UNCHANGED requests
       ELSE IF ~IsParty(u, requests[r])
       THEN /\ last' = Response("approve_hours", u, r, 403, "You are not part of this service request.")
            /\ UNCHANGED requests
       ELSE IF ~Truthy(requests[r].actual_hours)
       THEN /\ last' = Response("approve_hours", u, r, 400, "Actual hours must be set first.")
            /\ UNCHANGED requests
       ELSE /\ requests' = [requests EXCEPT
                  ![r].actual_hours_owner_approved =
                      IF u = ServiceOwner[requests[r].service] THEN TRUE ELSE @,
                  ![r].actual_hours_requester_approved =
                      IF u # ServiceOwner[requests[r].service] /\ u = requests[r].requester
                      THEN TRUE ELSE @]
            /\ last' = Response("approve_hours", u, r, 200, "")
    /\ UNCHANGED <<handlers, users, catalog, service_status, ledger, conversations>>

\* Number of settlements recorded so far (two rows each).
Settlements == Len(transactions) \div 2

\* Variants of the rows: a debit logged against the receiver's account, and
\* a credit logged with a different amount.
DebitRow_receiver(sr, hours) ==
    [account |-> Receiver(sr), transaction_type |-> "debit", amount |-> hours,
     status |-> "completed", related_service |-> sr.service]
CreditRow_amount(sr, hours) ==
    [account |-> Receiver(sr), transaction_type |-> "credit", amount |-> hours + 1,
     status |-> "completed", related_service |-> sr.service]

\* complete: the two TimeTransaction rows of a settlement (account, type,
\* amount, status and related_service; the description, the processor and
\* the timestamps of a row are not represented).
DebitRow(sr, hours) ==
    [account |-> Payer(sr), transaction_type |-> "debit", amount |-> hours,
     status |-> "completed", related_service |-> sr.service]
CreditRow(sr, hours) ==
    [account |-> Receiver(sr), transaction_type |-> "credit", amount |-> hours,
     status |-> "completed", related_service |-> sr.service]

\* Variants of the account updates: a debit that forgets total_spent, a
\* credit that forgets the balance, a credit that forgets total_earned.
Debit_nospent(acct, hours) ==
    [acct EXCEPT !.balance = @ - hours]
Credit_nobalance(acct, hours) ==
    [acct EXCEPT !.total_earned = @ + hours]
Credit_noearned(acct, hours) ==
    [acct EXCEPT !.balance = @ + hours]

\* complete: the debit of the payer's account row.
Debit(acct, hours) ==
    [acct EXCEPT !.balance = @ - hours, !.total_spent = @ + hours]
\* complete: the credit of the receiver's account row.
Credit(acct, hours) ==
    [acct EXCEPT !.balance = @ + hours, !.total_earned = @ + hours]

\* ServiceRequestViewSet.complete
complete(u, r) ==
    /\ u \in users
    /\ r \in RequestIds
    /\ Settlements < MaxSettlements
    /\ IF ~Visible(u, r)
       THEN /\ last' = Response("complete", u, r, 404, "Not found.")
            /\ UNCHANGED <<requests, service_status, ledger>>
       ELSE IF ~IsParty(u, requests[r])
       THEN /\ last' = Response("complete", u, r, 403, "You are not part of this service request.")
            /\ UNCHANGED <<requests, service_status, ledger>>
       ELSE IF ~Completable(requests[r].status)
       THEN /\ last' = Response("complete", u, r, 400, "Service must be in progress to complete.")
            /\ UNCHANGED <<requests, service_status, ledger>>
       ELSE IF ServiceHours(requests[r]) <= 0
       THEN /\ last' = Response("complete", u, r, 400, "Service hours must be greater than 0.")
            /\ UNCHANGED <<requests, service_status, ledger>>
       ELSE LET sr == requests[r]
                hours == ServiceHours(sr)
                saved == [requests EXCEPT ![r].status = "completed"]
                a1 == GetOrCreate(accounts, sr.requester, ZeroHours)
                o1 == OpeningAfter(accounts, opening, sr.requester, ZeroHours)
                a2 == GetOrCreate(a1, ServiceOwner[sr.service], ZeroHours)
                o2 == OpeningAfter(a1, o1, ServiceOwner[sr.service], ZeroHours)
                payer == Payer(sr)
                receiver == Receiver(sr)
                paid == [a2 EXCEPT ![payer] = Debit(@, hours)]
            IN /\ requests' = saved
               /\ service_status' =
                     IF ~ActiveRequests(saved, sr.service)
                     THEN [service_status EXCEPT ![sr.service] = "completed"]
                     ELSE service_status
               /\ opening' = o2
               /\ IF SufficientBalance(a2[payer].balance, hours)
                  THEN /\ accounts' = [paid EXCEPT ![receiver] = Credit(@, hours)]
                       /\ transactions' = transactions \o
                              << DebitRow(sr, hours), CreditRow(sr, hours) >>
                       /\ last' = Response("complete", u, r, 200, "")
                  ELSE /\ accounts' = a2
                       /\ UNCHANGED transactions
                       /\ last' = Response("complete", u, r, 400, "does not have enough balance.")
    /\ UNCHANGED <<handlers, users, catalog, conversations>>

Next ==
    \/ \E u \in Members : register(u)
    \/ \E u \in Members, s \in Services : perform_create(u, s)
    \/ \E u \in Members, r \in RequestIds, st \in StatusInputs : set_status(u, r, st)
    \/ \E u \in Members, r \in RequestIds : approve_start(u, r)
    \/ \E u \in Members, r \in RequestIds, h \in ActualHoursInputs \cup {NoHours} : update_hours(u, r, h)
    \/ \E u \in Members, r \in RequestIds : approve_hours(u, r)
    \/ \E u \in Members, r \in RequestIds : complete(u, r)

Spec == Init /\ [][Next]_vars

\* ================================================================ claims
RECURSIVE SumBalance(_)
SumBalance(S) ==
    IF S = {} THEN 0
    ELSE LET u == CHOOSE x \in S : TRUE
         IN accounts[u].balance + SumBalance(S \ {u})

\* Sum of all TimeAccount balances (a user without an account holds nothing).
TotalBalance == SumBalance(Users)

\* The step is the handling of one call of the operation op (every action
\* records its own name in last, and only steps that change the state are
\* steps of the specification).
Called(op) == last'.op = op
Succeeded == last'.code \in {200, 201}
InsufficientBalance == last'.code = 400 /\ last'.detail = "does not have enough balance."

\* The balance, total_earned and total_spent of every account are kept
\* (an account created by get_or_create starts with zeros).
LedgerFieldsKept ==
    \A u \in Users :
        /\ accounts'[u].balance = accounts[u].balance
        /\ accounts'[u].total_earned = accounts[u].total_earned
        /\ accounts'[u].total_spent = accounts[u].total_spent

RequesterRows(r) ==
    {i \in 1..Len(transactions) :
        /\ transactions[i].related_service = requests[r].service
        /\ transactions[i].account = requests[r].requester}

\* C2: each ServiceRequest is settled at most once.
C2_NoDoubleSettlement ==
    \A r \in RequestIds : Cardinality(RequesterRows(r)) <= 1

\* C3: a complete that fails for insufficient balance leaves the request
\* in_progress, every account's balance, total_earned and total_spent as
\* they were, and appends no TimeTransaction.
C3_AtomicFailure ==
    [][ Called("complete") /\ InsufficientBalance =>
            /\ requests'[last'.request].status = "in_progress"
            /\ LedgerFieldsKept
            /\ transactions' = transactions ]_vars

\* C4: a successful complete appends exactly two rows, a debit and a
\* credit of the settled hours on the accounts of the two parties, whose
\* signed amounts sum to zero; a failed complete appends none.
C4_PairedEntries ==
    [][ Called("complete") =>
          IF Succeeded
          THEN LET n == Len(transactions)
                   sr == requests[last'.request]
                   d == transactions'[n + 1]
                   c == transactions'[n + 2]
               IN /\ Len(transactions') = n + 2
                  /\ SubSeq(transactions', 1, n) = transactions
                  /\ d.transaction_type = "debit"
                  /\ c.transaction_type = "credit"
                  /\ d.amount = ServiceHours(sr)
                  /\ c.amount = d.amount
                  /\ signed_amount(d) + signed_amount(c) = 0
                  /\ signed_amount(c) > 0
                  /\ {d.account, c.account} = {sr.requester, ServiceOwner[sr.service]}
          ELSE transactions' = transactions ]_vars

\* C4 witness: a second pair of rows has been appended by a settlement.
C4_Witness ==
    /\ last.op = "complete" /\ last.code = 200
    /\ Len(transactions) = 4

\* C5: on an offer the requester pays the owner, on a need the owner pays
\* the requester, whoever of the two calls complete.
C5_Direction ==
    [][ Called("complete") /\ Succeeded =>
          LET n == Len(transactions)
              sr == requests[last'.request]
              owner == ServiceOwner[sr.service]
              payer == IF service_type[sr.service] = "offer" THEN sr.requester ELSE owner
              receiver == IF service_type[sr.service] = "offer" THEN owner ELSE sr.requester
          IN /\ service_type[sr.service] \in {"offer", "need"}
             /\ transactions'[n + 1].transaction_type = "debit"
             /\ transactions'[n + 1].account = payer
             /\ transactions'[n + 2].transaction_type = "credit"
             /\ transactions'[n + 2].account = receiver
             /\ accounts'[payer].balance < accounts[payer].balance
             /\ accounts'[receiver].balance > accounts[receiver].balance ]_vars

\* C5 witness: the requester has completed a request against a need and
\* the owner's account was debited.
C5_Witness ==
    /\ last.op = "complete" /\ last.code = 200
    /\ last.user = requests[last.request].requester
    /\ service_type[requests[last.request].service] = "need"
    /\ transactions[Len(transactions) - 1].account = ServiceOwner[requests[last.request].service]

C7_NonNegative ==
    \A u \in Users : accounts[u].balance >= 0

\* C7 witness: an account has spent hours and a completion was then refused
\* for want of balance.
C7_Witness ==
    /\ last.op = "complete" /\ last.code = 400
    /\ last.detail = "does not have enough balance."
    /\ \E u \in Members : accounts[u].total_spent > 0

C8_WitnessExact ==
    /\ last.op = "complete" /\ last.code = 200
    /\ accounts[Payer(requests[last.request])].balance = 0

\* C9: balance = balance at creation + total_earned - total_spent.
C9_LedgerIdentity ==
    \A u \in Users :
        accounts[u].balance = opening[u] + accounts[u].total_earned - accounts[u].total_spent

\* C9 witness: of two accounts opened with the starting grant, one has
\* spent hours and the other has earned them.
C9_Witness ==
    \E u, v \in Members :
        /\ opening[u] = StartingGrant /\ accounts[u].total_spent > 0
        /\ opening[v] = StartingGrant /\ accounts[v].total_earned > 0

RECURSIVE SumRows(_, _, _)
\* Sum of f(row) over the rows i..Len(log) of the log recorded against u.
SumRows(u, kind, i) ==
    IF i > Len(transactions) THEN 0
    ELSE LET t == transactions[i]
             v == IF t.account # u THEN 0
                  ELSE IF kind = "signed" THEN signed_amount(t)
                  ELSE IF t.transaction_type = kind THEN t.amount
                  ELSE 0
         IN v + SumRows(u, kind, i + 1)

Outsider == "u3"

\* As Init, with the outsider among the existing users, holding the account
\* that register gave it.
InitOutsider ==
    /\ users \in {U \in SUBSET Users : Outsider \in U /\ \A s \in Services : ServiceOwner[s] \in U}
    /\ service_type \in [Services -> ServiceTypes]
    /\ estimated_hours \in [Services -> EstimatedHoursChoices]
    /\ service_status = [s \in Services |-> "active"]
    /\ requests = << >>
    /\ accounts \in [Users -> {NoAccount, GrantAccount}]
    /\ \A u \in Users \ users : accounts[u] = NoAccount
    /\ accounts[Outsider] = GrantAccount
    /\ opening = [u \in Users |-> accounts[u].balance]
    /\ transactions = << >>
    /\ conversations = << >>
    /\ last = [op |-> "none", user |-> "u1", request |-> NoRequest, code |-> 0,
               detail |-> ""]
    /\ handlers = [h \in HandlerIds |-> IdleHandler]

\* The calls of the members, and every call on an existing request made by
\* the outsider (who makes no request of its own).
NextOutsider ==
    \/ Next
    \/ \E r \in RequestIds, st \in StatusInputs : set_status(Outsider, r, st)
    \/ \E r \in RequestIds : approve_start(Outsider, r)
    \/ \E r \in RequestIds, h \in ActualHoursInputs : update_hours(Outsider, r, h)
    \/ \E r \in RequestIds : approve_hours(Outsider, r)
    \/ \E r \in RequestIds : complete(Outsider, r)

SpecOutsider == InitOutsider /\ [][NextOutsider]_vars

\* ------------------------------------------------------ claims C11 - C20
\* The edges of the request state machine.
AllowedEdges ==
    { <<"pending", "accepted">>, <<"pending", "rejected">>, <<"pending", "cancelled">>,
      <<"accepted", "cancelled">>, <<"accepted", "in_progress">>,
      <<"in_progress", "completed">> }

\* The response is the refusal of a call that is not valid in the request's
\* current status.
InvalidTransition ==
    /\ last'.code = 400
    /\ last'.detail \in { "Service must be in progress to complete.",
                          "Service request must be accepted first.",
                          "Service must be in progress or completed to update hours.",
                          "Invalid transition." }

\* The response is the refusal of the actor: a 403 of the handler or, for a
\* user to whom get_queryset does not show the request, the 404 of get_object.
Forbidden == last'.code = 403 \/ (last'.code = 404 /\ last'.detail = "Not found.")

\* C11: every change of a request's status follows one of the edges
\* pending->accepted, pending->rejected, pending->cancelled,
\* accepted->cancelled, accepted->in_progress, in_progress->completed.
C11_TransitionRelation ==
    [][ \A r \in RequestIds :
          requests'[r].status # requests[r].status =>
              <<requests[r].status, requests'[r].status>> \in AllowedEdges ]_vars

\* C12: once a request is cancelled, rejected or completed its status never
\* changes again, and set_status, approve_start and complete on it are refused.
C12_TerminalAbsorbing ==
    [][ \A r \in RequestIds :
          requests[r].status \in TerminalStatuses =>
              /\ requests'[r].status = requests[r].status
              /\ (last'.request = r /\ last'.op \in {"set_status", "approve_start", "complete"}
                     => ~Succeeded) ]_vars

C14_RoleAuthorization ==
    [][ \A u \in Users, r \in RequestIds, st \in {"accepted", "rejected", "cancelled"} :
          ( /\ set_status(u, r, st)
            /\ \/ st \in {"accepted", "rejected"} /\ u # ServiceOwner[requests[r].service]
               \/ st = "cancelled" /\ u # requests[r].requester ) =>
            /\ Forbidden
            /\ requests'[r].status = requests[r].status
            /\ requests'[r].responded_at = requests[r].responded_at ]_vars

\* C14 witness: the requester has tried to accept or reject the request.
C14_Witness ==
    /\ last.op = "set_status" /\ last.code = 403
    /\ last.detail = "Only the service owner can perform this action."
    /\ last.user = requests[last.request].requester

\* C14, the other cases reached: the owner has tried to cancel, and a user
\* who is no party has called set_status.
C14_WitnessCancel ==
    /\ last.op = "set_status" /\ last.code = 403
    /\ last.detail = "Only the requester can cancel this request."
    /\ last.user = ServiceOwner[requests[last.request].service]
C14_WitnessOutsider ==
    /\ last.op = "set_status" /\ last.code = 404
    /\ last.user = Outsider

\* C15: accepted or rejected asked by the service owner succeeds exactly when
\* the request is pending (the status becomes the decision and responded_at
\* is set); from any other status it fails with InvalidTransition and leaves
\* the request as it was.
C15_DecidePrecondition ==
    [][ \A r \in RequestIds, st \in {"accepted", "rejected"} :
          set_status(ServiceOwner[requests[r].service], r, st) =>
             IF requests[r].status = "pending"
             THEN /\ Succeeded
                  /\ requests'[r].status = st
                  /\ requests'[r].responded_at = Stamped
             ELSE /\ InvalidTransition
                  /\ requests' = requests ]_vars

\* C16: cancelled asked by the requester succeeds exactly when the request
\* is pending or accepted; from in_progress, completed, rejected or cancelled
\* it is refused and the request stays as it was.
C16_CancelPrecondition ==
    [][ \A r \in RequestIds :
          set_status(requests[r].requester, r, "cancelled") =>
             IF requests[r].status \in {"pending", "accepted"}
             THEN /\ Succeeded
                  /\ requests'[r].status = "cancelled"
             ELSE /\ ~Succeeded
                  /\ requests' = requests ]_vars

\* C17: there is at most one ServiceRequest per (requester, service) pair,
\* and create for a pair that has a request, in whatever status, fails with
\* DuplicateRequest and creates nothing.
C17_OnePerPair ==
    [][ /\ \A i, j \in 1..Len(requests') :
              (requests'[i].requester = requests'[j].requester
                  /\ requests'[i].service = requests'[j].service) => i = j
        /\ \A u \in Users, s \in Services :
              ( /\ perform_create(u, s)
                /\ \E i \in RequestIds :
                      requests[i].requester = u /\ requests[i].service = s ) =>
                /\ last'.code = 400
                /\ last'.detail = "You already have a request for this service."
                /\ requests' = requests
                /\ conversations' = conversations ]_vars

\* C17 witness: a second create was refused while the first request of the
\* pair is rejected.
C17_Witness ==
    /\ last.op = "create" /\ last.code = 400
    /\ last.detail = "You already have a request for this service."
    /\ \E i \in RequestIds : /\ requests[i].requester = last.user
                             /\ requests[i].status = "rejected"

C19_DualStartGate ==
    [][ ( /\ Called("approve_start")
          /\ IsParty(last'.user, requests[last'.request])
          /\ requests[last'.request].status = "accepted" ) =>
          LET r == last'.request
              sr == requests[r]
              byOwner == last'.user = ServiceOwner[sr.service]
              own == IF byOwner THEN sr.owner_approved ELSE sr.requester_approved
              other == IF byOwner THEN sr.requester_approved ELSE sr.owner_approved
          IN /\ Succeeded
             /\ (~own /\ ~other) =>
                   /\ requests'[r].status = "accepted"
                   /\ requests'[r].owner_approved = byOwner
                   /\ requests'[r].requester_approved = ~byOwner
             /\ (~own /\ other) =>
                   /\ requests'[r].status = "in_progress"
                   /\ requests'[r].owner_approved
                   /\ requests'[r].requester_approved ]_vars

\* C19 witness: the owner's approval, coming second, has started the request.
C19_Witness ==
    /\ last.op = "approve_start" /\ last.code = 200
    /\ last.user = ServiceOwner[requests[last.request].service]
    /\ requests[last.request].status = "in_progress"
    /\ requests[last.request].owner_approved
    /\ requests[last.request].requester_approved
    /\ transactions = << >>

\* C19, the first half reached: only the requester has approved.
C19_WitnessOne ==
    /\ last.op = "approve_start" /\ last.code = 200
    /\ requests[last.request].status = "accepted"
    /\ requests[last.request].requester_approved
    /\ ~requests[last.request].owner_approved

\* C20: for an offer with estimated hours h and a requester who holds h,
\* after create, set_status accepted and approve_start by the owner alone,
\* complete by the owner succeeds and moves h from the requester to the
\* owner, and complete by the requester then succeeds and moves nothing.
C20_Workflow ==
    [][ \A r \in RequestIds :
          LET sr == requests[r]
              owner == ServiceOwner[sr.service]
              h == EstimatedDecimal(sr.service)
          IN /\ ( /\ last = Response("approve_start", owner, r, 200, "")
                  /\ sr.owner_approved /\ ~sr.requester_approved
                  /\ sr.actual_hours = NoHours
                  /\ sr.responded_at = Stamped
                  /\ transactions = << >>
                  /\ service_type[sr.service] = "offer" /\ h > 0
                  /\ accounts[sr.requester].balance >= h
                  /\ Called("complete") /\ last'.user = owner /\ last'.request = r ) =>
                    /\ Succeeded
                    /\ accounts'[owner].balance = accounts[owner].balance + h
                    /\ accounts'[sr.requester].balance = accounts[sr.requester].balance - h
             /\ ( /\ last = Response("complete", owner, r, 200, "")
                  /\ Len(transactions) = 2
                  /\ Called("complete") /\ last'.user = sr.requester /\ last'.request = r ) =>
                    /\ Succeeded
                    /\ \A u \in Users : accounts'[u].balance = accounts[u].balance ]_vars

\* ------------------------------------------- the time account endpoint
\* total_earned and total_spent of the accounts that are read (hundredths).
RatioInputs == {0, 200, 500, 1500}

RECURSIVE GCD(_, _)
GCD(a, b) == IF b = 0 THEN a ELSE GCD(b, a % b)

\* A float: +infinity, or the finite value num / den in lowest terms (the
\* rounding of a quotient to 53 bits is not represented).
Infinity == [finite |-> FALSE, num |-> 1, den |-> 0]
Zero == [finite |-> TRUE, num |-> 0, den |-> 1]
\* float(a / b) for b > 0
Quotient(a, b) == [finite |-> TRUE, num |-> a \div GCD(a, b), den |-> b \div GCD(a, b)]

\* Variant of the ratio: an account that has spent nothing has ratio 0.
participation_ratio_zero(acct) ==
    IF acct.total_spent = 0 THEN Zero
    ELSE Quotient(acct.total_earned, acct.total_spent)

\* TimeAccount.participation_ratio
participation_ratio(acct) ==
    IF acct.total_spent = 0
    THEN IF acct.total_earned > 0 THEN Infinity ELSE Zero
    ELSE Quotient(acct.total_earned, acct.total_spent)

\* TimeAccountSerializer: the fields of the account that are shown.
TimeAccountData(acct) ==
    [balance |-> acct.balance, total_earned |-> acct.total_earned,
     total_spent |-> acct.total_spent,
     participation_ratio |-> participation_ratio(acct)]

\* TimeAccountViewSet.retrieve / list: the caller's account, created with
\* the zero defaults when it is missing, is serialized.
retrieve(u) ==
    /\ u \in users
    /\ accounts' = GetOrCreate(accounts, u, ZeroHours)
    /\ opening' = OpeningAfter(accounts, opening, u, ZeroHours)
    /\ last' = Response("time_account", u, NoRequest, 200, TimeAccountData(accounts'[u]))
    /\ UNCHANGED <<handlers, users, catalog, service_status, requests, transactions, conversations>>

\* The accounts that are read: none, or one opened with the starting grant
\* that has earned and spent hours since.
AccountChoices ==
    {NoAccount} \cup
    { [exists |-> TRUE, balance |-> StartingGrant + e - s,
       total_earned |-> e, total_spent |-> s] :
         <<e, s>> \in {p \in RatioInputs \X RatioInputs : StartingGrant + p[1] - p[2] >= 0} }

InitAccounts ==
    /\ users = Members
    /\ service_type \in [Services -> ServiceTypes]
    /\ estimated_hours \in [Services -> EstimatedHoursChoices]
    /\ service_status = [s \in Services |-> "active"]
    /\ requests = << >>
    /\ accounts \in [Users -> AccountChoices]
    /\ \A u \in Users \ users : accounts[u] = NoAccount
    /\ opening = [u \in Users |-> accounts[u].balance - accounts[u].total_earned
                                   + accounts[u].total_spent]
    /\ transactions = << >>
    /\ conversations = << >>
    /\ last = [op |-> "none", user |-> "u1", request |-> NoRequest, code |-> 0,
               detail |-> ""]
    /\ handlers = [h \in HandlerIds |-> IdleHandler]

NextAccounts == \E u \in Members : retrieve(u)

SpecAccounts == InitAccounts /\ [][NextAccounts]_vars

\* ------------------------------------------------ calls handled side by side
\* The server runs several workers and the database runs in autocommit mode:
\* no handler opens a transaction or locks a row, so the statements of two
\* calls interleave.  A step below is one database statement of a handler
\* together with the computation on the objects in memory that follows it.
\* Model.save() writes every column of the row from the object in memory.
Finished(h, code, detail) ==
    [handlers EXCEPT ![h].pc = "done", ![h].code = code, ![h].detail = detail]

\* approve_start: get_object and the checks on the row that was read.
approve_start_load(h, u, r) ==
    /\ handlers[h].pc = "idle"
    /\ u \in users
    /\ Visible(u, r)
    /\ LET sr == requests[r]
           called == [handlers EXCEPT ![h].op = "approve_start", ![h].user = u,
                                      ![h].request = r, ![h].sr = sr]
       IN handlers' =
            IF sr.status # "accepted"
            THEN [called EXCEPT ![h].pc = "done", ![h].code = 400,
                                ![h].detail = "Service request must be accepted first."]
            ELSE [called EXCEPT ![h].pc = "approve_start_save"]
    /\ UNCHANGED <<users, catalog, service_status, requests, ledger, conversations, last>>

\* approve_start: the caller's flag and the status are set on the object in
\* memory, and sr.save() writes the row.
approve_start_save(h) ==
    /\ handlers[h].pc = "approve_start_save"
    /\ LET sr == handlers[h].sr
           u == handlers[h].user
           o == IF u = ServiceOwner[sr.service] THEN TRUE ELSE sr.owner_approved
           q == IF u # ServiceOwner[sr.service] /\ u = sr.requester
                THEN TRUE ELSE sr.requester_approved
       IN requests' = [requests EXCEPT ![handlers[h].request] =
                          [sr EXCEPT !.owner_approved = o,
                                     !.requester_approved = q,
                                     !.status = StartedStatus(o, q, @)]]
    /\ handlers' = Finished(h, 200, "")
    /\ UNCHANGED <<users, catalog, service_status, ledger, conversations, last>>

\* complete: get_object, the check of the status and the choice of the hours.
complete_load(h, u, r) ==
    /\ handlers[h].pc = "idle"
    /\ u \in users
    /\ Visible(u, r)
    /\ LET sr == requests[r]
           called == [handlers EXCEPT ![h].op = "complete", ![h].user = u,
                                      ![h].request = r, ![h].sr = sr]
       IN handlers' =
            IF ~Completable(sr.status)
            THEN [called EXCEPT ![h].pc = "done", ![h].code = 400,
                                ![h].detail = "Service must be in progress to complete."]
            ELSE IF ServiceHours(sr) <= 0
            THEN [called EXCEPT ![h].pc = "done", ![h].code = 400,
                                ![h].detail = "Service hours must be greater than 0."]
            ELSE [called EXCEPT ![h].pc = "complete_save",
                                ![h].service_hours = ServiceHours(sr)]
    /\ UNCHANGED <<users, catalog, service_status, requests, ledger, conversations, last>>

\* complete: sr.status = "completed"; sr.save()
complete_save(h) ==
    /\ handlers[h].pc = "complete_save"
    /\ requests' = [requests EXCEPT ![handlers[h].request] =
                       [handlers[h].sr EXCEPT !.status = "completed"]]
    /\ handlers' = [handlers EXCEPT ![h].pc = "complete_service",
                                    ![h].sr.status = "completed"]
    /\ UNCHANGED <<users, catalog, service_status, ledger, conversations, last>>

\* complete: the service is completed when none of its requests is active.
complete_service(h) ==
    /\ handlers[h].pc = "complete_service"
    /\ service_status' =
          IF ~ActiveRequests(requests, handlers[h].sr.service)
          THEN [service_status EXCEPT ![handlers[h].sr.service] = "completed"]
          ELSE service_status
    /\ handlers' = [handlers EXCEPT ![h].pc = "complete_accounts"]
    /\ UNCHANGED <<users, catalog, requests, ledger, conversations, last>>

\* complete: the two get_or_create calls read the account rows, and the
\* balance that was read is compared with the hours.
complete_accounts(h) ==
    /\ handlers[h].pc = "complete_accounts"
    /\ LET sr == handlers[h].sr
           a1 == GetOrCreate(accounts, sr.requester, ZeroHours)
           o1 == OpeningAfter(accounts, opening, sr.requester, ZeroHours)
           a2 == GetOrCreate(a1, ServiceOwner[sr.service], ZeroHours)
           o2 == OpeningAfter(a1, o1, ServiceOwner[sr.service], ZeroHours)
           read == [handlers EXCEPT ![h].payer_account = a2[Payer(sr)],
                                    ![h].receiver_account = a2[Receiver(sr)]]
       IN /\ accounts' = a2
          /\ opening' = o2
          /\ handlers' =
               IF SufficientBalance(a2[Payer(sr)].balance, handlers[h].service_hours)
               THEN [read EXCEPT ![h].pc = "complete_debit"]
               ELSE [read EXCEPT ![h].pc = "done", ![h].code = 400,
                                 ![h].detail = "does not have enough balance."]
    /\ UNCHANGED <<users, catalog, service_status, requests, transactions,
                   conversations, last>>

\* complete: payer_account.save() after the debit of the object in memory.
complete_debit(h) ==
    /\ handlers[h].pc = "complete_debit"
    /\ accounts' = [accounts EXCEPT ![Payer(handlers[h].sr)] =
                       Debit(handlers[h].payer_account, handlers[h].service_hours)]
    /\ handlers' = [handlers EXCEPT ![h].pc = "complete_credit"]
    /\ UNCHANGED <<users, catalog, service_status, requests, opening, transactions,
                   conversations, last>>

\* complete: receiver_account.save() after the credit of the object in memory.
complete_credit(h) ==
    /\ handlers[h].pc = "complete_credit"
    /\ accounts' = [accounts EXCEPT ![Receiver(handlers[h].sr)] =
                       Credit(handlers[h].receiver_account, handlers[h].service_hours)]
    /\ handlers' = [handlers EXCEPT ![h].pc = "complete_log"]
    /\ UNCHANGED <<users, catalog, service_status, requests, opening, transactions,
                   conversations, last>>

\* complete: the two TimeTransaction rows are inserted (the two inserts
\* follow each other and are taken as one step) and the call returns.
complete_log(h) ==
    /\ handlers[h].pc = "complete_log"
    /\ transactions' = transactions \o
          << DebitRow(handlers[h].sr, handlers[h].service_hours),
             CreditRow(handlers[h].sr, handlers[h].service_hours) >>
    /\ handlers' = Finished(h, 200, "")
    /\ UNCHANGED <<users, catalog, service_status, requests, accounts, opening,
                   conversations, last>>

\* Variant of the constraint: the table accepts a second row for a pair.
UniqueViolation_none(reqs, u, s) == FALSE

\* ServiceRequest.Meta.unique_together = ["requester", "service"]: the
\* insert of a row for (u, s) is refused by the database.
UniqueViolation(reqs, u, s) ==
    \E i \in 1..Len(reqs) : reqs[i].requester = u /\ reqs[i].service = s

\* perform_create: the lookup of a request of the same pair and the check of
\* the service's owner.
create_check(h, u, s) ==
    /\ handlers[h].pc = "idle"
    /\ u \in users
    /\ LET called == [handlers EXCEPT ![h].op = "create", ![h].user = u,
                         ![h].sr = [NoRow EXCEPT !.requester = u, !.service = s,
                                                 !.status = "pending"]]
       IN handlers' =
            IF ExistingRequest(u, s)
            THEN [called EXCEPT ![h].pc = "done", ![h].code = 400,
                                ![h].detail = "You already have a request for this service."]
            ELSE IF OwnService(u, s)
            THEN [called EXCEPT ![h].pc = "done", ![h].code = 400,
                                ![h].detail = "You cannot request your own service."]
            ELSE [called EXCEPT ![h].pc = "create_insert"]
    /\ UNCHANGED <<users, catalog, service_status, requests, ledger, conversations, last>>

\* perform_create: serializer.save(requester=user) inserts the row; an
\* insert that breaks the uniqueness constraint raises IntegrityError, which
\* nothing catches, and the call ends with a server error.
create_insert(h) ==
    /\ handlers[h].pc = "create_insert"
    /\ IF UniqueViolation(requests, handlers[h].sr.requester, handlers[h].sr.service)
       THEN /\ handlers' = Finished(h, 500, "IntegrityError")
            /\ UNCHANGED requests
       ELSE /\ requests' = Append(requests, handlers[h].sr)
            /\ handlers' = [handlers EXCEPT ![h].pc = "create_conversation",
                                            ![h].request = Len(requests) + 1]
    /\ UNCHANGED <<users, catalog, service_status, ledger, conversations, last>>

\* perform_create: the conversation is created and its two participants
\* are added (taken as one step).
create_conversation(h) ==
    /\ handlers[h].pc = "create_conversation"
    /\ conversations' = Append(conversations,
          [related_service |-> handlers[h].sr.service,
           participants |-> {handlers[h].sr.requester,
                             ServiceOwner[handlers[h].sr.service]}])
    /\ handlers' = [handlers EXCEPT ![h].pc = "create_link",
                                    ![h].sr.conversation = Len(conversations) + 1]
    /\ UNCHANGED <<users, catalog, service_status, requests, ledger, last>>

\* perform_create: service_request.save(update_fields=["conversation"])
\* writes that one column, and the call returns.
create_link(h) ==
    /\ handlers[h].pc = "create_link"
    /\ requests' = [requests EXCEPT ![handlers[h].request].conversation =
                                        handlers[h].sr.conversation]
    /\ handlers' = Finished(h, 201, "")
    /\ UNCHANGED <<users, catalog, service_status, ledger, conversations, last>>

\* A request of requester u in the given status, accepted by the owner; on
\* an in_progress request both parties have approved the start, and hours
\* may have been proposed and approved by both.
RequestRow(u, status, conv, hours) ==
    [requester |-> u, service |-> "s1", status |-> status,
     owner_approved |-> status = "in_progress",
     requester_approved |-> status = "in_progress",
     actual_hours |-> hours,
     actual_hours_owner_approved |-> hours # NoHours,
     actual_hours_requester_approved |-> hours # NoHours,
     responded_at |-> Stamped, conversation |-> conv]

\* The requests on which the calls race: none yet, one accepted request, or
\* the requests of two users that are both in progress.
RaceRequests ==
    { << >> } \cup
    { << RequestRow("u2", "accepted", 1, NoHours) >> } \cup
    { << RequestRow("u2", "in_progress", 1, h2), RequestRow("u3", "in_progress", 2, h3) >> :
         h2 \in {NoHours, Unit}, h3 \in {NoHours, Unit} }

\* Every user has registered, and the requests are in place.
InitRace ==
    /\ users = Users
    /\ service_type \in [Services -> ServiceTypes]
    /\ estimated_hours \in [Services -> EstimatedHoursChoices]
    /\ service_status = [s \in Services |-> "active"]
    /\ requests \in RaceRequests
    /\ accounts = [u \in Users |-> GrantAccount]
    /\ opening = [u \in Users |-> StartingGrant]
    /\ transactions = << >>
    /\ conversations = [i \in 1..Len(requests) |->
                          [related_service |-> "s1",
                           participants |-> {requests[i].requester, ServiceOwner["s1"]}]]
    /\ last = [op |-> "none", user |-> "u1", request |-> NoRequest, code |-> 0,
               detail |-> ""]
    /\ handlers = [h \in HandlerIds |-> IdleHandler]

\* Each worker handles one call.
NextRace ==
    \/ \E h \in HandlerIds, u \in Users, r \in RequestIds : approve_start_load(h, u, r)
    \/ \E h \in HandlerIds : approve_start_save(h)
    \/ \E h \in HandlerIds, u \in Users, r \in RequestIds : complete_load(h, u, r)
    \/ \E h \in HandlerIds : complete_save(h)
    \/ \E h \in HandlerIds : complete_service(h)
    \/ \E h \in HandlerIds : complete_accounts(h)
    \/ \E h \in HandlerIds : complete_debit(h)
    \/ \E h \in HandlerIds : complete_credit(h)
    \/ \E h \in HandlerIds : complete_log(h)
    \/ \E h \in HandlerIds, u \in Users, s \in Services : create_check(h, u, s)
    \/ \E h \in HandlerIds : create_insert(h)
    \/ \E h \in HandlerIds : create_conversation(h)
    \/ \E h \in HandlerIds : create_link(h)

SpecRace == InitRace /\ [][NextRace]_vars

\* ------------------------------------------------------ claims C21 - C30
\* C21: registering a new user creates the one TimeAccount of that user
\* with balance 3.00, total_earned 0 and total_spent 0, and alters no
\* account that exists already.
C21_RegistrationGrant ==
    [][ Called("register") =>
          LET u == last'.user
          IN /\ ~accounts[u].exists
             /\ accounts'[u] = [exists |-> TRUE, balance |-> 3 * Unit,
                                total_earned |-> 0, total_spent |-> 0]
             /\ \A v \in Users \ {u} : accounts'[v] = accounts[v] ]_vars

\* C21 witness: a user has registered while another user's account exists.
C21_Witness ==
    /\ last.op = "register" /\ last.code = 201
    /\ accounts[last.user].exists
    /\ \E v \in Users \ {last.user} : accounts[v].exists

\* C22: the participation ratio shown for an account is total_earned /
\* total_spent when total_spent > 0, +infinity when total_spent = 0 and
\* total_earned > 0, and 0 when both are 0.
C22_ParticipationRatio ==
    [][ Called("time_account") =>
          LET a == accounts'[last'.user]
              ratio == last'.detail.participation_ratio
          IN /\ a.total_spent > 0 =>
                   /\ ratio.finite /\ ratio.den > 0
                   /\ ratio.num * a.total_spent = a.total_earned * ratio.den
             /\ (a.total_spent = 0 /\ a.total_earned > 0) => ~ratio.finite
             /\ (a.total_spent = 0 /\ a.total_earned = 0) =>
                   ratio.finite /\ ratio.num = 0 ]_vars

\* C22 witness: an account with 15 hours earned and 5 hours spent was shown
\* with ratio 3.
C22_Witness ==
    /\ last.op = "time_account"
    /\ accounts[last.user].total_earned = 15 * Unit
    /\ accounts[last.user].total_spent = 5 * Unit
    /\ last.detail.participation_ratio = [finite |-> TRUE, num |-> 3, den |-> 1]

\* C22, the other cases reached: 5 hours earned and none spent was shown
\* with an infinite ratio, and an account without history with ratio 0.
C22_WitnessInfinity ==
    /\ last.op = "time_account"
    /\ accounts[last.user].total_earned = 5 * Unit
    /\ accounts[last.user].total_spent = 0
    /\ ~last.detail.participation_ratio.finite
C22_WitnessZero ==
    /\ last.op = "time_account"
    /\ accounts[last.user].total_earned = 0
    /\ accounts[last.user].total_spent = 0
    /\ last.detail.participation_ratio = [finite |-> TRUE, num |-> 0, den |-> 1]

\* The hours debited by the calls of complete that returned successfully
\* with p as payer.
RECURSIVE SettledBy(_, _)
SettledBy(H, p) ==
    IF H = {} THEN 0
    ELSE LET h == CHOOSE x \in H : TRUE
             own == IF /\ handlers[h].op = "complete"
                       /\ handlers[h].pc = "done" /\ handlers[h].code = 200
                       /\ Payer(handlers[h].sr) = p
                    THEN handlers[h].service_hours ELSE 0
         IN own + SettledBy(H \ {h}, p)

\* The calls of complete have passed the balance check.
PassedCheck(h) ==
    /\ handlers[h].op = "complete"
    /\ \/ handlers[h].pc \in {"complete_debit", "complete_credit", "complete_log"}
       \/ handlers[h].pc = "done" /\ handlers[h].code = 200

\* C23: two calls of complete on two different requests with the same payer
\* never both pass the balance check on the same balance, and when both
\* have returned the payer's balance is its balance before the calls minus
\* the hours of the calls that succeeded, is not negative, and agrees with
\* the debits in the log.
C23_SerializedDebit ==
    \A g, h \in HandlerIds :
        ( /\ g # h
          /\ handlers[g].op = "complete" /\ handlers[h].op = "complete"
          /\ handlers[g].request # handlers[h].request
          /\ Payer(handlers[g].sr) = Payer(handlers[h].sr) ) =>
          LET p == Payer(handlers[g].sr)
          IN /\ (PassedCheck(g) /\ PassedCheck(h)) =>
                   handlers[g].payer_account.balance # handlers[h].payer_account.balance
             /\ (handlers[g].pc = "done" /\ handlers[h].pc = "done") =>
                   /\ accounts[p].balance = opening[p] - SettledBy(HandlerIds, p)
                   /\ accounts[p].balance >= 0
                   /\ accounts[p].balance = opening[p] + SumRows(p, "signed", 1)
                   /\ accounts[p].total_spent = SumRows(p, "debit", 1)

\* C24: when approve_start by the owner and approve_start by the requester
\* of the same accepted request have both returned successfully, both
\* owner_approved and requester_approved are true and the status is
\* in_progress.
C24_NoLostApproval ==
    \A g, h \in HandlerIds :
        ( /\ handlers[g].op = "approve_start" /\ handlers[h].op = "approve_start"
          /\ handlers[g].request = handlers[h].request
          /\ handlers[g].user = ServiceOwner[handlers[g].sr.service]
          /\ handlers[h].user = handlers[h].sr.requester
          /\ handlers[g].pc = "done" /\ handlers[g].code = 200
          /\ handlers[h].pc = "done" /\ handlers[h].code = 200 ) =>
          LET sr == requests[handlers[g].request]
          IN /\ sr.owner_approved
             /\ sr.requester_approved
             /\ sr.status = "in_progress"

\* The hours the parties have agreed on: the proposed hours when both have
\* approved them, the estimate of the service (0 without one) otherwise.
AgreedHours(sr) ==
    IF /\ sr.actual_hours # NoHours
       /\ sr.actual_hours_owner_approved
       /\ sr.actual_hours_requester_approved
    THEN sr.actual_hours
    ELSE IF estimated_hours[sr.service] = NoHours THEN 0
    ELSE estimated_hours[sr.service] * Unit

\* The response is the refusal of an amount of hours.
InvalidAmount ==
    /\ last'.code = 400
    /\ last'.detail \in { "Service hours must be greater than 0.",
                          "Hours cannot be negative." }

\* The response is the refusal of an approval of hours that were never set.
PreconditionFailed ==
    /\ last'.code = 400
    /\ last'.detail = "Actual hours must be set first."

\* C25: a successful complete settles actual_hours when they are set and
\* approved by both parties, and the service's estimated_hours (0 when
\* absent) in every other case.
C25_HoursSelection ==
    [][ Called("complete") /\ Succeeded =>
          LET sr == requests[last'.request]
              n == Len(transactions)
              p == Payer(sr)
          IN /\ transactions'[n + 1].amount = AgreedHours(sr)
             /\ transactions'[n + 2].amount = AgreedHours(sr)
             /\ accounts'[p].balance = accounts[p].balance - AgreedHours(sr) ]_vars

\* C25 witness: hours that differ from the estimate were approved by both
\* parties and settled.
C25_Witness ==
    /\ last.op = "complete" /\ last.code = 200
    /\ LET sr == requests[last.request]
       IN /\ sr.actual_hours # NoHours
          /\ sr.actual_hours_owner_approved /\ sr.actual_hours_requester_approved
          /\ estimated_hours[sr.service] # NoHours
          /\ sr.actual_hours # estimated_hours[sr.service] * Unit
          /\ transactions[Len(transactions)].amount = sr.actual_hours

\* C25, the other case reached: hours approved by one party only were set
\* aside and the estimate was settled.
C25_WitnessFallback ==
    /\ last.op = "complete" /\ last.code = 200
    /\ LET sr == requests[last.request]
       IN /\ sr.actual_hours \notin {NoHours, 0}
          /\ sr.actual_hours_owner_approved # sr.actual_hours_requester_approved
          /\ sr.actual_hours # estimated_hours[sr.service] * Unit
          /\ transactions[Len(transactions)].amount = estimated_hours[sr.service] * Unit

\* C26: complete by a party on an in_progress request whose hours to settle
\* are not positive fails with InvalidAmount and changes nothing: the
\* request stays in_progress, the service, the accounts and the log stay as
\* they were.
C26_InvalidAmount ==
    [][ ( /\ Called("complete")
          /\ IsParty(last'.user, requests[last'.request])
          /\ requests[last'.request].status = "in_progress"
          /\ AgreedHours(requests[last'.request]) <= 0 ) =>
            /\ InvalidAmount
            /\ requests'[last'.request].status = "in_progress"
            /\ UNCHANGED <<requests, service_status, catalog, accounts, opening,
                           transactions, conversations, users>> ]_vars

\* C26 witness: a completion was refused on a service without an estimate
\* while hours proposed for the request wait for an approval.
C26_Witness ==
    /\ last.op = "complete" /\ last.code = 400
    /\ last.detail = "Service hours must be greater than 0."
    /\ requests[last.request].status = "in_progress"
    /\ requests[last.request].actual_hours > 0
    /\ estimated_hours[requests[last.request].service] = NoHours

\* C27: update_hours with hours >= 0 by either party on an in_progress or
\* completed request sets actual_hours to the proposed hours and both
\* hour-approval flags to false, whatever they were and whoever proposes.
C27_ProposalResets ==
    [][ \A u \in {last'.user}, r \in {last'.request}, h \in ActualHoursInputs :
          ( /\ Called("update_hours")
            /\ update_hours(u, r, h)
            /\ h >= 0
            /\ IsParty(u, requests[r])
            /\ requests[r].status \in {"in_progress", "completed"} ) =>
            /\ Succeeded
            /\ requests'[r].actual_hours = h
            /\ ~requests'[r].actual_hours_owner_approved
            /\ ~requests'[r].actual_hours_requester_approved
            /\ requests'[r].status = requests[r].status ]_vars

\* C27 witness: hours approved by both parties were settled, and a new
\* proposal has then replaced them and cleared both approvals.
C27_Witness ==
    /\ last.op = "update_hours" /\ last.code = 200
    /\ LET sr == requests[last.request]
       IN /\ sr.status = "completed"
          /\ ~sr.actual_hours_owner_approved /\ ~sr.actual_hours_requester_approved
          /\ Len(transactions) = 2
          /\ transactions[1].amount # sr.actual_hours
          /\ transactions[1].amount # EstimatedDecimal(sr.service)

\* C28: update_hours by a party fails with InvalidTransition when the
\* request is neither in_progress nor completed, and with InvalidAmount when
\* the hours are negative; actual_hours and both hour-approval flags stay as
\* they were.
C28_ProposalRefused ==
    [][ \A u \in {last'.user}, r \in {last'.request}, h \in ActualHoursInputs :
          ( Called("update_hours") /\ update_hours(u, r, h) /\ IsParty(u, requests[r]) ) =>
            /\ requests[r].status \notin {"in_progress", "completed"} =>
                  InvalidTransition /\ requests' = requests
            /\ (requests[r].status \in {"in_progress", "completed"} /\ h < 0) =>
                  InvalidAmount /\ requests' = requests ]_vars

\* C28 witness: negative hours were refused on a request whose approved
\* hours are kept.
C28_Witness ==
    /\ last.op = "update_hours" /\ last.code = 400
    /\ last.detail = "Hours cannot be negative."
    /\ requests[last.request].actual_hours > 0
    /\ requests[last.request].actual_hours_owner_approved

\* C28, the other case reached: a proposal on an accepted request was refused.
C28_WitnessStatus ==
    /\ last.op = "update_hours" /\ last.code = 400
    /\ last.detail = "Service must be in progress or completed to update hours."
    /\ requests[last.request].status = "accepted"
    /\ requests[last.request].actual_hours = NoHours

\* C29: approve_hours by a party fails with PreconditionFailed exactly when
\* actual_hours is unset; when actual_hours is set, to whatever hours >= 0
\* update_hours accepted, it succeeds, sets the caller's hour-approval flag
\* and leaves the other party's flag and actual_hours as they were.
C29_ApproveHours ==
    [][ \A u \in Members, r \in RequestIds :
          ( approve_hours(u, r) /\ IsParty(u, requests[r]) ) =>
            LET sr == requests[r]
                byOwner == u = ServiceOwner[sr.service]
            IN IF sr.actual_hours = NoHours
               THEN PreconditionFailed /\ requests' = requests
               ELSE /\ Succeeded
                    /\ requests'[r].actual_hours = sr.actual_hours
                    /\ requests'[r].actual_hours_owner_approved =
                          (byOwner \/ sr.actual_hours_owner_approved)
                    /\ requests'[r].actual_hours_requester_approved =
                          (~byOwner \/ sr.actual_hours_requester_approved) ]_vars

\* C30: approve_start on an accepted request, or approve_hours on a request
\* with actual_hours set, by a party whose own flag is true already succeeds
\* and leaves the request as it was.
C30_IdempotentApproval ==
    [][ ( /\ last'.op \in {"approve_start", "approve_hours"}
          /\ IsParty(last'.user, requests[last'.request]) ) =>
          LET r == last'.request
              sr == requests[r]
              byOwner == last'.user = ServiceOwner[sr.service]
              ownStart == IF byOwner THEN sr.owner_approved ELSE sr.requester_approved
              ownHours == IF byOwner THEN sr.actual_hours_owner_approved
                          ELSE sr.actual_hours_requester_approved
          IN /\ (Called("approve_start") /\ sr.status = "accepted" /\ ownStart) =>
                   Succeeded /\ requests' = requests
             /\ (Called("approve_hours") /\ sr.actual_hours # NoHours /\ ownHours) =>
                   Succeeded /\ requests' = requests ]_vars

\* ------------------------------------------- the generic update endpoint
\* ServiceRequest.REQUEST_STATUS: the choices of the status field.
RequestStatuses == {"pending", "accepted", "rejected", "in_progress", "completed", "cancelled"}
\* request.data["status"] values sent with PATCH: every choice, and a value
\* that is no choice.
PatchInputs == RequestStatuses \cup {"started"}

\* ModelViewSet.partial_update (PATCH /service-requests/{pk}/; PUT differs
\* only in requiring service_id): get_object, validation by
\* ServiceRequestSerializer, in which status is a writable choice field, and
\* serializer.save().
partial_update(u, r, new_status) ==
    /\ u \in users
    /\ r \in RequestIds
    /\ IF ~Visible(u, r)
       THEN /\ last' = Response("partial_update", u, r, 404, "Not found.")
            /\ UNCHANGED requests
       ELSE IF new_status \notin RequestStatuses
       THEN /\ last' = Response("partial_update", u, r, 400, "is not a valid choice.")
            /\ UNCHANGED requests
       ELSE /\ requests' = [requests EXCEPT ![r].status = new_status]
            /\ last' = Response("partial_update", u, r, 200, "")
    /\ UNCHANGED <<handlers, users, catalog, service_status, ledger, conversations>>

\* As Init, with every existing user holding the starting grant of register.
InitUpdate ==
    /\ users \in {U \in SUBSET Members : \A s \in Services : ServiceOwner[s] \in U}
    /\ service_type \in [Services -> ServiceTypes]
    /\ estimated_hours \in [Services -> EstimatedHoursChoices]
    /\ service_status = [s \in Services |-> "active"]
    /\ requests = << >>
    /\ accounts = [u \in Users |-> IF u \in users THEN GrantAccount ELSE NoAccount]
    /\ opening = [u \in Users |-> accounts[u].balance]
    /\ transactions = << >>
    /\ conversations = << >>
    /\ last = [op |-> "none", user |-> "u1", request |-> NoRequest, code |-> 0,
               detail |-> ""]
    /\ handlers = [h \in HandlerIds |-> IdleHandler]

\* The calls of Spec and the generic update.
NextUpdate ==
    \/ Next
    \/ \E u \in Members, r \in RequestIds, st \in PatchInputs : partial_update(u, r, st)

SpecUpdate == InitUpdate /\ [][NextUpdate]_vars

\* ------------------------------------------------------ claims C31 - C39
\* C31: complete changes the status of a service only to completed, only
\* when the settlement of that call succeeded, and only when no request
\* against the service is then pending, accepted or in_progress; a failed
\* completion, or one that leaves another such request, leaves the service's
\* status as it was.
C31_ServiceCompletion ==
    [][ Called("complete") =>
          \A s \in Services :
              service_status'[s] # service_status[s] =>
                 /\ service_status'[s] = "completed"
                 /\ s = requests[last'.request].service
                 /\ Succeeded
                 /\ \A i \in 1..Len(requests') :
                       requests'[i].service = s =>
                          requests'[i].status \in TerminalStatuses ]_vars

\* An account as get_or_create makes it: balance 0, total_earned 0 and
\* total_spent 0.
ZeroAccount == [exists |-> TRUE, balance |-> 0, total_earned |-> 0, total_spent |-> 0]

C32_WitnessReceiver ==
    /\ last.op = "complete" /\ last.code = 200
    /\ Len(transactions) = 2
    /\ opening[Receiver(requests[last.request])] = 0
    /\ accounts[Receiver(requests[last.request])].balance = transactions[2].amount

\* C38: a service whose status is completed has no request that is pending,
\* accepted or in_progress.
C38_CompletedService ==
    \A s \in Services :
        service_status[s] = "completed" =>
            \A i \in RequestIds :
                requests[i].service = s =>
                    requests[i].status \notin {"pending", "accepted", "in_progress"}

C34_PartyOnly ==
    [][ ( /\ last'.op \in {"approve_start", "update_hours", "approve_hours", "complete"}
          /\ last'.user # requests[last'.request].requester
          /\ last'.user # ServiceOwner[requests[last'.request].service] ) =>
            /\ Forbidden
            /\ UNCHANGED <<requests, service_status, catalog, accounts, opening,
                           transactions, conversations, users>> ]_vars

\* C34 witness: the outsider's complete on an in_progress request whose
\* payer holds the hours was refused, and nothing was settled.
C34_Witness ==
    /\ last.op = "complete" /\ last.code = 404
    /\ last.user = Outsider
    /\ requests[last.request].status = "in_progress"
    /\ ServiceHours(requests[last.request]) > 0
    /\ accounts[Payer(requests[last.request])].balance
          >= ServiceHours(requests[last.request])
    /\ transactions = << >>

\* C35: a request whose status is in_progress or completed has both
\* owner_approved and requester_approved true.
C35_StartApproved ==
    \A r \in RequestIds :
        requests[r].status \in {"in_progress", "completed"} =>
            requests[r].owner_approved /\ requests[r].requester_approved

\* C39: the status of a request changes only in a call of set_status,
\* approve_start or complete; the generic update of a request never changes
\* its status.
C39_NoBypass ==
    [][ \A r \in RequestIds :
          requests'[r].status # requests[r].status =>
              last'.op \in {"set_status", "approve_start", "complete"} ]_vars

\* C36: when complete by the owner and complete by the requester of the
\* same in_progress request are handled side by side, at most one of them
\* settles: at most one debit/credit pair is recorded for the request and
\* the payer's balance goes down by the hours at most once.
C36_OneSettlement ==
    \A g, h \in HandlerIds :
        ( /\ handlers[g].op = "complete" /\ handlers[h].op = "complete"
          /\ handlers[g].request = handlers[h].request
          /\ handlers[g].user = ServiceOwner[handlers[g].sr.service]
          /\ handlers[h].user = handlers[h].sr.requester ) =>
          LET r == handlers[g].request
              p == Payer(requests[r])
          IN /\ Cardinality(RequesterRows(r)) <= 1
             /\ ~(handlers[g].code = 200 /\ handlers[h].code = 200)
             /\ accounts[p].balance >= opening[p] - ServiceHours(requests[r])

\* C37: when two create calls of the same user for the same service are
\* handled side by side, at most one request of the pair exists at any time,
\* and at most one of the calls succeeds; the other creates nothing.
C37_UniqueUnderRace ==
    /\ \A i, j \in RequestIds :
          (requests[i].requester = requests[j].requester
              /\ requests[i].service = requests[j].service) => i = j
    /\ \A g, h \in HandlerIds :
          ( /\ g # h
            /\ handlers[g].op = "create" /\ handlers[h].op = "create"
            /\ handlers[g].sr.requester = handlers[h].sr.requester
            /\ handlers[g].sr.service = handlers[h].sr.service
            /\ handlers[g].pc = "done" /\ handlers[h].pc = "done" ) =>
            /\ ~(handlers[g].code = 201 /\ handlers[h].code = 201)
            /\ handlers[g].code # 201 => handlers[g].request = NoRequest
            /\ Len(conversations) = Len(requests)

\* C37 witness: both calls passed the lookup before either inserted; one
\* has created the request and the other was refused by the constraint.
C37_Witness ==
    \E g, h \in HandlerIds :
        /\ handlers[g].op = "create" /\ handlers[h].op = "create"
        /\ handlers[g].sr.requester = handlers[h].sr.requester
        /\ handlers[g].pc = "done" /\ handlers[g].code = 201
        /\ handlers[h].pc = "done" /\ handlers[h].code = 500
        /\ Len(requests) = 1
        /\ requests[1].requester = handlers[g].user
        /\ requests[1].conversation = 1

====
